---- MODULE Spec2Model ----
(***************************************************************************)
(* A model of tasuki2sgf.py: the SimpleSGF board model and its serializer, *)
(* the gooe diagram parser tex2sgf, the batch extractor extract_sgf, the   *)
(* collection merger merge_sgfs and the renderer adapter render_sgf.       *)
(*                                                                         *)
(* Python strings are TLA+ strings, used only through Len, SubSeq and \o.  *)
(* An Optional value is a sequence of length 0 (None) or 1.                *)
(***************************************************************************)
EXTENDS Integers, Sequences, FiniteSets, TLC

VARIABLES
    \* A SimpleSGF object (lines 20-26) and the calls made on it.
    game, ret, lastOp, flip_run, flip_before,
    \* tex2sgf: its argument and the board it returns.
    tex, parsed,
    \* coord2letter: <<size, row, col>> and the letters returned.
    point, letters,
    \* extract_sgf: arguments, loop counter, files written, outcome.
    content, normalize, render_output_dir, problem_num, sgf_files, epc,
    \* merge_sgfs: the directory listing, the comment, the text written.
    sgf_dir, merge_comment, output_file,
    \* render_sgf: arguments, position, the temporary file, the command run.
    rgame, shrink_wrap, rpc, temp_file, render_cmd

boardVars == <<game, ret, lastOp, flip_run, flip_before>>
parseVars == <<tex, parsed>>
coordVars == <<point, letters>>
extractVars == <<content, normalize, render_output_dir, problem_num, sgf_files, epc>>
mergeVars == <<sgf_dir, merge_comment, output_file>>
renderVars == <<rgame, shrink_wrap, rpc, temp_file, render_cmd>>
vars == <<boardVars, parseVars, coordVars, extractVars, mergeVars, renderVars>>

(***************************************************************************)
(* Python built-ins on strings and integers.                               *)
(***************************************************************************)

\* The printable ASCII characters: code points 32 to 95, and 97 to 126 (a TLA+
\* string cannot hold code point 96, which no operation below produces).
AsciiLow == " !\"#$%&'()*+,-./0123456789:;<=>?@ABCDEFGHIJKLMNOPQRSTUVWXYZ[\\]^_"

AsciiHigh == "abcdefghijklmnopqrstuvwxyz{|}~"

None == <<>>

Some(x) == <<x>>

Range(f) == {f[k] : k \in DOMAIN f}

CharAt(s, k) == SubSeq(s, k, k)

chr(n) == IF n < 96 THEN CharAt(AsciiLow, n - 31) ELSE CharAt(AsciiHigh, n - 96)

ord(c) == CHOOSE n \in (32..95) \cup (97..126) : chr(n) = c

IsDigit(c) == c \in {chr(n) : n \in 48..57}

IsLower(c) == c \in {chr(n) : n \in 97..122}

RECURSIVE upper(_)
upper(s) ==
    IF Len(s) = 0 THEN ""
    ELSE LET c == CharAt(s, 1)
         IN (IF IsLower(c) THEN chr(ord(c) - 32) ELSE c) \o upper(SubSeq(s, 2, Len(s)))

\* Python's  needle in hay  on two strings: hay has needle as a substring.
StrIn(needle, hay) ==
    \E k \in 0..(Len(hay) - Len(needle)) : SubSeq(hay, k + 1, k + Len(needle)) = needle

StartsWith(s, pat) == Len(pat) <= Len(s) /\ SubSeq(s, 1, Len(pat)) = pat

\* str.replace(old, new) for a non-empty old: the non-overlapping occurrences, left to right.
RECURSIVE replace(_, _, _)
replace(s, old, new) ==
    IF Len(s) = 0 THEN ""
    ELSE IF StartsWith(s, old) THEN new \o replace(SubSeq(s, Len(old) + 1, Len(s)), old, new)
    ELSE CharAt(s, 1) \o replace(SubSeq(s, 2, Len(s)), old, new)

\* The index of the first "\n" of s, or 0.
RECURSIVE FirstNewline(_, _)
FirstNewline(s, k) ==
    IF k > Len(s) THEN 0
    ELSE IF CharAt(s, k) = "\n" THEN k
    ELSE FirstNewline(s, k + 1)

\* str.split("\n"): always at least one piece.
RECURSIVE split(_)
split(s) ==
    LET k == FirstNewline(s, 1)
    IN IF k = 0 THEN <<s>>
       ELSE <<SubSeq(s, 1, k - 1)>> \o split(SubSeq(s, k + 1, Len(s)))

\* "".join(pieces)
RECURSIVE join(_)
join(pieces) ==
    IF Len(pieces) = 0 THEN "" ELSE Head(pieces) \o join(Tail(pieces))

\* str.strip() of blanks.
RECURSIVE strip(_)
strip(s) ==
    IF Len(s) = 0 THEN ""
    ELSE IF CharAt(s, 1) = " " THEN strip(SubSeq(s, 2, Len(s)))
    ELSE IF CharAt(s, Len(s)) = " " THEN strip(SubSeq(s, 1, Len(s) - 1))
    ELSE s

\* str(n) for n >= 0.
RECURSIVE str(_)
str(n) ==
    IF n < 10 THEN CharAt("0123456789", n + 1)
    ELSE str(n \div 10) \o CharAt("0123456789", (n % 10) + 1)

\* int(s) for a string of decimal digits.
RECURSIVE int(_)
int(s) ==
    IF Len(s) = 0 THEN 0
    ELSE 10 * int(SubSeq(s, 1, Len(s) - 1)) + (ord(CharAt(s, Len(s))) - 48)

\* The order in which a set is iterated: fixed for a given set, otherwise arbitrary.
Iterate(S) == CHOOSE f \in [1..Cardinality(S) -> S] : Range(f) = S

(***************************************************************************)
(* SimpleSGF                                                               *)
(***************************************************************************)

DefaultSize == 19

SimpleSGF(size) ==
    [size |-> size, setup_black |-> {}, setup_white |-> {}, marks |-> {},
     comment |-> None, player |-> "B"]

\* coord2letter with the row letter one too far.
coord2letter_off_by_one(size, row, col) == chr(col + 97) \o chr(size - row + 97)

coord2letter(size, row, col) == chr(col + 97) \o chr(size - row - 1 + 97)

set_setup_stones(g, black, white) ==
    [g EXCEPT !.setup_black = black, !.setup_white = white]

add_label(g, label, row, col) ==
    [g EXCEPT !.marks = @ \cup {<<label, row, col>>}]

set_comment(g, comment) == [g EXCEPT !.comment = Some(comment)]

\* The assertion of set_player: a substring test against "BW".
PlayerAccepted(player) == StrIn(upper(player), "BW")

set_player(g, player) ==
    IF PlayerAccepted(player)
    THEN [game |-> [g EXCEPT !.player = upper(player)], raised |-> "None"]
    ELSE [game |-> g, raised |-> "AssertionError"]

\* The second test compares the player with "B" and assigns nothing.
flip_colors(g) ==
    LET swapped == [g EXCEPT !.setup_black = g.setup_white, !.setup_white = g.setup_black]
        first == IF swapped.player = "B" THEN [swapped EXCEPT !.player = "W"] ELSE swapped
    IN IF first.player = "W" THEN first ELSE first

RECURSIVE PointList(_, _)
PointList(size, pts) ==
    IF Len(pts) = 0 THEN ""
    ELSE "[" \o coord2letter(size, Head(pts)[1], Head(pts)[2]) \o "]"
         \o PointList(size, Tail(pts))

RECURSIVE LabelList(_, _)
LabelList(size, ms) ==
    IF Len(ms) = 0 THEN ""
    ELSE "[" \o coord2letter(size, Head(ms)[2], Head(ms)[3]) \o ":" \o Head(ms)[1] \o "]"
         \o LabelList(size, Tail(ms))

serialize(g) ==
    "(" \o ";FF[4]GM[1]" \o "SZ[" \o str(g.size) \o "]"
    \o (IF g.comment # None /\ g.comment[1] # "" THEN "\nC[" \o g.comment[1] \o "]" ELSE "")
    \o (IF g.player # "" THEN "\nPL[" \o g.player \o "]" ELSE "")
    \o (IF g.setup_black # {} THEN "\nAB" \o PointList(g.size, Iterate(g.setup_black)) ELSE "")
    \o (IF g.setup_white # {} THEN "\nAW" \o PointList(g.size, Iterate(g.setup_white)) ELSE "")
    \o (IF g.marks # {} THEN "\nLB" \o LabelList(g.size, Iterate(g.marks)) ELSE "")
    \o "\nCA[UTF-8]" \o ")\n"

(***************************************************************************)
(* The board model driven through its methods.  ret is the outcome of the  *)
(* last call, lastOp its name and argument; flip_run counts the            *)
(* flip_colors calls made in a row (1 or 2) and flip_before is the board   *)
(* before the first of them.                                               *)
(***************************************************************************)

Points == {<<18, 0>>, <<17, 1>>}

Labels == {"A"}

Comments == {"", "1. black to play"}

PlayerInputs == {"B", "W", "b", "w", "", "BW", "bw", "X", "WB"}

Returned(value) == [raised |-> "None", value |-> value]

Raised(exception) == [raised |-> exception, value |-> ""]

BoardIdle ==
    /\ game = SimpleSGF(DefaultSize)
    /\ ret = Returned("")
    /\ lastOp = <<"__init__">>
    /\ flip_run = 0
    /\ flip_before = None

ParseIdle == tex = "" /\ parsed = None

CoordIdle == point = <<DefaultSize, 0, 0>> /\ letters = None

ExtractIdle ==
    /\ content = <<>>
    /\ normalize = FALSE
    /\ render_output_dir = None
    /\ problem_num = 0
    /\ sgf_files = <<>>
    /\ epc = "idle"

MergeIdle == sgf_dir = <<>> /\ merge_comment = "" /\ output_file = None

RenderIdle ==
    /\ rgame = SimpleSGF(DefaultSize)
    /\ shrink_wrap = "NO"
    /\ rpc = "idle"
    /\ temp_file = "absent"
    /\ render_cmd = <<>>

Init == BoardIdle /\ ParseIdle /\ CoordIdle /\ ExtractIdle /\ MergeIdle /\ RenderIdle

NotBoard == UNCHANGED <<parseVars, coordVars, extractVars, mergeVars, renderVars>>

Mutator(name) ==
    /\ ret' = Returned("")
    /\ lastOp' = name
    /\ flip_run' = 0
    /\ flip_before' = None
    /\ NotBoard

CallSetSetupStones ==
    \E black \in SUBSET Points, white \in SUBSET Points :
        /\ game' = set_setup_stones(game, black, white)
        /\ Mutator(<<"set_setup_stones">>)

CallAddLabel ==
    \E label \in Labels, p \in Points :
        /\ game' = add_label(game, label, p[1], p[2])
        /\ Mutator(<<"add_label">>)

CallSetComment ==
    \E comment \in Comments :
        /\ game' = set_comment(game, comment)
        /\ Mutator(<<"set_comment">>)

CallSetPlayer ==
    \E player \in PlayerInputs :
        /\ game' = set_player(game, player).game
        /\ ret' = IF set_player(game, player).raised = "None"
                  THEN Returned("") ELSE Raised(set_player(game, player).raised)
        /\ lastOp' = <<"set_player", player>>
        /\ flip_run' = 0
        /\ flip_before' = None
        /\ NotBoard

CallFlipColors ==
    /\ game' = flip_colors(game)
    /\ ret' = Returned("")
    /\ lastOp' = <<"flip_colors">>
    /\ flip_run' = IF flip_run = 1 THEN 2 ELSE 1
    /\ flip_before' = IF flip_run = 1 THEN flip_before ELSE Some(game)
    /\ NotBoard

CallSerialize ==
    /\ ret' = Returned(serialize(game))
    /\ lastOp' = <<"serialize">>
    /\ flip_run' = 0
    /\ flip_before' = None
    /\ UNCHANGED game
    /\ NotBoard

Next ==
    \/ CallSetSetupStones
    \/ CallAddLabel
    \/ CallSetComment
    \/ CallSetPlayer
    \/ CallFlipColors
    \/ CallSerialize

Spec == Init /\ [][Next]_vars

\* C1: one call to flip_colors swaps the two stone sets and swaps the player in
\* both directions (B becomes W and W becomes B); size, labels and comment stay.
C1_FlipSwapsBothWays ==
    [][CallFlipColors =>
        /\ game'.setup_black = game.setup_white
        /\ game'.setup_white = game.setup_black
        /\ (game.player = "B" => game'.player = "W")
        /\ (game.player = "W" => game'.player = "B")
        /\ game'.size = game.size
        /\ game'.marks = game.marks
        /\ game'.comment = game.comment]_vars

\* C2: after two flip_colors calls in a row, the stone sets and the player are
\* those before the two calls.
C2_FlipIsInvolution ==
    flip_run = 2 =>
        /\ game.setup_black = flip_before[1].setup_black
        /\ game.setup_white = flip_before[1].setup_white
        /\ game.player = flip_before[1].player

Orderings(S) == {f \in [1..Cardinality(S) -> S] : Range(f) = S}

\* The output C5 describes for board g, its sets listed in some order.
Described(g, out) ==
    \E bs \in Orderings(g.setup_black), ws \in Orderings(g.setup_white),
       ms \in Orderings(g.marks) :
        /\ g.player \in {"B", "W"}
        /\ out = "(;FF[4]GM[1]SZ[" \o str(g.size) \o "]"
                 \o (IF g.comment \notin {None, Some("")}
                     THEN "\nC[" \o g.comment[1] \o "]" ELSE "")
                 \o "\nPL[" \o g.player \o "]"
                 \o (IF bs # <<>> THEN "\nAB" \o PointList(g.size, bs) ELSE "")
                 \o (IF ws # <<>> THEN "\nAW" \o PointList(g.size, ws) ELSE "")
                 \o (IF ms # <<>> THEN "\nLB" \o LabelList(g.size, ms) ELSE "")
                 \o "\nCA[UTF-8])" \o "\n"

\* C5: serialize returns header, C when the comment is non-empty, PL[B] or PL[W]
\* always, AB, AW and LB when their sets are non-empty, CA and a newline, in this
\* order; it changes no field, and a second call in a row returns the same.
C5_SerializeOrder ==
    [][CallSerialize =>
        /\ game' = game
        /\ Described(game, ret'.value)
        /\ (lastOp = <<"serialize">> => ret' = ret)]_vars

\* C6: the player is always B or W; set_player stores the upper-cased colour when
\* it is B or W in either case, and on any other string raises and leaves the
\* player as it was.
C6_PlayerIsBorW ==
    [][/\ game'.player \in {"B", "W"}
       /\ \A player \in PlayerInputs :
            lastOp' = <<"set_player", player>> =>
                IF upper(player) \in {"B", "W"}
                THEN game'.player = upper(player) /\ ret'.raised = "None"
                ELSE game'.player = game.player /\ ret'.raised # "None"]_vars

(***************************************************************************)
(* coord2letter on every point of every board size up to MaxSize.          *)
(***************************************************************************)

MaxSize == 19

CoordInit ==
    /\ point \in {<<size, row, col>> : size \in 1..MaxSize, row \in 0..(MaxSize - 1),
                                       col \in 0..(MaxSize - 1)}
    /\ point[2] < point[1]
    /\ point[3] < point[1]
    /\ letters = None
    /\ BoardIdle /\ ParseIdle /\ ExtractIdle /\ MergeIdle /\ RenderIdle

CallCoord2letter ==
    /\ letters = None
    /\ letters' = Some(coord2letter(point[1], point[2], point[3]))
    /\ UNCHANGED <<point, boardVars, parseVars, extractVars, mergeVars, renderVars>>

CoordNext == CallCoord2letter

SpecCoord == CoordInit /\ [][CoordNext]_vars

\* C8: coord2letter(row, col) is chr(col+97) followed by chr(size-row-1+97);
\* decoding col = code(first)-97 and row = size-1-(code(second)-97) gives back
\* (row, col), and no other point of the board gets the same two letters.
C8_CoordRoundTrip ==
    letters # None =>
        LET size == point[1]
            row == point[2]
            col == point[3]
            pair == letters[1]
        IN /\ Len(pair) = 2
           /\ CharAt(pair, 1) = chr(col + 97)
           /\ CharAt(pair, 2) = chr(size - row - 1 + 97)
           /\ ord(CharAt(pair, 1)) - 97 = col
           /\ size - 1 - (ord(CharAt(pair, 2)) - 97) = row
           /\ \A r2 \in 0..(size - 1), c2 \in 0..(size - 1) :
                <<r2, c2>> # <<row, col>> => coord2letter(size, r2, c2) # pair

C8_Witness == point = <<19, 17, 1>> /\ letters = Some("bb")

(***************************************************************************)
(* tex2sgf                                                                 *)
(***************************************************************************)

\* symbol in "A-Z": a substring test against the three characters A, - and Z.
LabelSymbol(symbol) == StrIn(symbol, "A-Z")

StoneSymbol(symbol) == StrIn(symbol, "@!")

\* The column counter advancing after a stone glyph too.
NextCol_always_advance(symbol, col_num) == col_num + 1

\* The column counter after one symbol: the else branch of the stone test.
NextCol(symbol, col_num) == IF StoneSymbol(symbol) THEN col_num ELSE col_num + 1

StripEscapes(text) == replace(replace(replace(text, "\\0??", ""), "\\- ", ""), "\\!  ", "")

RECURSIVE ScanRow(_, _, _, _, _)
ScanRow(acc, row, row_num, k, col_num) ==
    IF k > Len(row) THEN acc
    ELSE LET symbol == CharAt(row, k)
             r == acc.game.size - 1 - row_num
             labelled == IF LabelSymbol(symbol)
                         THEN [acc EXCEPT !.game = add_label(@, symbol, r, col_num)]
                         ELSE acc
             placed == IF StoneSymbol(symbol)
                       THEN IF symbol = "@"
                            THEN [labelled EXCEPT !.black = Append(@, <<r, col_num>>)]
                            ELSE [labelled EXCEPT !.white = Append(@, <<r, col_num>>)]
                       ELSE labelled
         IN ScanRow(placed, row, row_num, k + 1, NextCol(symbol, col_num))

RECURSIVE ScanLines(_, _, _)
ScanLines(acc, lines, row_num) ==
    IF row_num >= Len(lines) THEN acc
    ELSE ScanLines(ScanRow(acc, lines[row_num + 1], row_num, 1, 0), lines, row_num + 1)

tex2sgf(text) ==
    LET lines == split(StripEscapes(text))
        acc == ScanLines([game |-> SimpleSGF(19), black |-> <<>>, white |-> <<>>], lines, 0)
    IN set_setup_stones(acc.game, Range(acc.black), Range(acc.white))

MaxTexLen == 4

TexTokens == {"@", "!", "+", "A", "B", "-", "\n", "\\0??", "\\- ", "\\!  "}

RECURSIVE TexStrings(_)
TexStrings(n) ==
    IF n = 0 THEN {""}
    ELSE LET shorter == TexStrings(n - 1)
         IN shorter \cup {s \o t : s \in shorter, t \in TexTokens}

TwoByTwo == "@!\n!@"

ParseInit ==
    /\ tex \in TexStrings(MaxTexLen) \cup {TwoByTwo}
    /\ parsed = None
    /\ BoardIdle /\ CoordIdle /\ ExtractIdle /\ MergeIdle /\ RenderIdle

CallTex2sgf ==
    /\ parsed = None
    /\ parsed' = Some(tex2sgf(tex))
    /\ UNCHANGED <<tex, boardVars, coordVars, extractVars, mergeVars, renderVars>>

ParseNext == CallTex2sgf

SpecParse == ParseInit /\ [][ParseNext]_vars

\* The cells <<character, 18 - i, c>> of the characters of text that are in chars,
\* i the 0-indexed line and c the number of characters before it on its line that
\* are not in skipped.
Cells(text, chars, skipped) ==
    LET lines == split(text)
    IN {<<CharAt(lines[ij[1] + 1], ij[2]), 18 - ij[1],
          Cardinality({k \in 1..(ij[2] - 1) : CharAt(lines[ij[1] + 1], k) \notin skipped})>> :
            ij \in {ij \in (0..(Len(lines) - 1)) \X (1..Len(text)) :
                        /\ ij[2] <= Len(lines[ij[1] + 1])
                        /\ CharAt(lines[ij[1] + 1], ij[2]) \in chars}}

PointsOf(cells) == {<<c[2], c[3]>> : c \in cells}

Uppercase == {chr(n) : n \in 65..90}

StoneGlyphs == {"@", "!"}

HasProperty(out, tag, size, pts, after) ==
    \E order \in Orderings(pts) : StrIn("\n" \o tag \o PointList(size, order) \o after, out)

C4_LabelsAreUppercaseLetters ==
    parsed # None => parsed[1].marks = Cells(StripEscapes(tex), Uppercase, StoneGlyphs)

(***************************************************************************)
(* render_sgf, one step per statement group; rpc is the position reached.  *)
(* The renderer and the minifier are the environment: whether sgf-render   *)
(* starts, the status it returns and whether svgcleaner is installed are   *)
(* chosen freely.                                                          *)
(***************************************************************************)

ShrinkWrapOption == {"NO", "YES", "ROW_ONLY"}

Boards ==
    {set_setup_stones(SimpleSGF(DefaultSize), black, white) :
        black \in SUBSET Points, white \in SUBSET Points}

MinRow(moves) == CHOOSE r \in {m[1] : m \in moves} : \A m \in moves : r <= m[1]

\* min() of two one-character strings.
MinChar(a, b) == IF ord(b) < ord(a) THEN b ELSE a

\* min() of an empty set raises ValueError.
ViewportRaises(g, option) ==
    option = "ROW_ONLY" /\ g.setup_black \cup g.setup_white = {}

Command(g, option) ==
    <<"sgf-render", "temp.name", "--style", "minimalist", "--no-board-labels", "-o",
      "output_filename">>
    \o (IF option = "YES" THEN <<"-s">>
        ELSE IF option = "ROW_ONLY"
        THEN <<"-r", "aa-s" \o MinChar(chr(g.size - MinRow(g.setup_black \cup g.setup_white)
                                           + 97), "s")>>
        ELSE <<>>)

RenderInit ==
    /\ rgame \in Boards
    /\ shrink_wrap \in ShrinkWrapOption
    /\ rpc = "called"
    /\ temp_file = "absent"
    /\ render_cmd = <<>>
    /\ BoardIdle /\ ParseIdle /\ CoordIdle /\ ExtractIdle /\ MergeIdle

NotRender == UNCHANGED <<boardVars, parseVars, coordVars, extractVars, mergeVars>>

\* Lines 142-144: the temporary file is created, written and closed.
CreateTemp ==
    /\ rpc = "called"
    /\ temp_file' = serialize(rgame)
    /\ rpc' = "created"
    /\ UNCHANGED <<rgame, shrink_wrap, render_cmd>>
    /\ NotRender

\* Lines 145-160: the command line; the row-only viewport needs a stone.
BuildCommand ==
    /\ rpc = "created"
    /\ IF ViewportRaises(rgame, shrink_wrap)
       THEN rpc' = "raised ValueError" /\ UNCHANGED render_cmd
       ELSE rpc' = "command" /\ render_cmd' = Command(rgame, shrink_wrap)
    /\ UNCHANGED <<rgame, shrink_wrap, temp_file>>
    /\ NotRender

\* Line 161: subprocess.call raises when the binary cannot be started, and
\* otherwise returns its status, which is not looked at.
InvokeRenderer ==
    /\ rpc = "command"
    /\ \E starts \in BOOLEAN, status \in {0, 1} :
        rpc' = IF starts THEN "rendered" ELSE "raised FileNotFoundError"
    /\ UNCHANGED <<rgame, shrink_wrap, temp_file, render_cmd>>
    /\ NotRender

\* Lines 163-164: the minifier, when installed.
Minify ==
    /\ rpc = "rendered"
    /\ \E installed \in BOOLEAN :
        render_cmd' = IF installed
                      THEN <<"svgcleaner", "--quiet", "output_filename", "output_filename">>
                      ELSE render_cmd
    /\ rpc' = "minified"
    /\ UNCHANGED <<rgame, shrink_wrap, temp_file>>
    /\ NotRender

\* Line 166: the temporary file is deleted and render_sgf returns.
Unlink ==
    /\ rpc = "minified"
    /\ temp_file' = "absent"
    /\ rpc' = "returned"
    /\ UNCHANGED <<rgame, shrink_wrap, render_cmd>>
    /\ NotRender

\* After an exception has left render_sgf and its traceback is dropped, the file
\* object of line 142 (delete left at its default) may be finalized, which deletes
\* the file; nothing in render_sgf does.
Finalize ==
    /\ rpc \in {"raised ValueError", "raised FileNotFoundError"}
    /\ temp_file' = "absent"
    /\ rpc' = "finalized"
    /\ UNCHANGED <<rgame, shrink_wrap, render_cmd>>
    /\ NotRender

RenderNext ==
    \/ CreateTemp
    \/ BuildCommand
    \/ InvokeRenderer
    \/ Minify
    \/ Unlink
    \/ Finalize

SpecRender == RenderInit /\ [][RenderNext]_vars

RenderEnded == rpc \in {"returned", "raised ValueError", "raised FileNotFoundError"}

\* C10: when render_sgf ends, by returning or by raising, the temporary file it
\* created no longer exists.
C10_TempFileGoneAtEnd == RenderEnded => temp_file = "absent"

(***************************************************************************)
(* extract_sgf: content is the list of (diagram, title) pairs the two      *)
(* pattern scans pair up; problem_num counts the problems done; sgf_files  *)
(* is the list of files written; epc is "running", "done" or the exception *)
(* that ended the call.                                                    *)
(***************************************************************************)

\* The methods of str the program names; str has no method endwith.
StrMethods == {"replace", "split", "strip", "upper", "format", "join", "encode", "endswith"}

SwapWords(name) ==
    replace(replace(replace(name, "black", "!!temp"), "white", "black"), "!!temp", "white")

\* Lines 206-215.  Line 213 looks up name.endwith before anything is flipped; the
\* result of the replace on line 214 is dropped.
Normalize(name, g) ==
    LET swapped == SwapWords(name)
    IN IF "endwith" \notin StrMethods
       THEN [raised |-> "AttributeError", name |-> swapped, game |-> g]
       ELSE [raised |-> "None", name |-> swapped, game |-> flip_colors(g)]

\* filename.format(problem_num=..., name=...) for the default template.
FormatFilename(num, name) == name \o " - (problem " \o str(num) \o ")"

\* Lines 202-221 for one problem: the exception raised, or the file written.
ExtractOne(problem, num, norm) ==
    LET name == strip(problem.title)
        parsedGame == tex2sgf(problem.board)
        white == StrIn("white to play", name)
        toPlay == IF white THEN set_player(parsedGame, "W").game ELSE parsedGame
        normal == IF white /\ norm THEN Normalize(name, toPlay)
                  ELSE [raised |-> "None", name |-> name, game |-> toPlay]
        final == set_comment(normal.game, normal.name)
    IN [raised |-> normal.raised,
        game |-> final,
        file |-> [name |-> FormatFilename(num, normal.name) \o ".sgf",
                  data |-> serialize(final)]]

MaxProblems == 2

Titles == {" 1. white to play ", "2. black to play", "3. white to play, black dies"}

Diagrams == {"\\- @+\\0??+\n\\0??+\\- !+\n", "\\0??+\\- !+\\- !+\n", "\\0??+\\0??+\n"}

Problems == [board : Diagrams, title : Titles]

ExtractInit ==
    /\ content \in UNION {[1..n -> Problems] : n \in 1..MaxProblems}
    /\ normalize \in BOOLEAN
    /\ render_output_dir \in {None, Some("render")}
    /\ problem_num = 0
    /\ sgf_files = <<>>
    /\ epc = "running"
    /\ BoardIdle /\ ParseIdle /\ CoordIdle /\ MergeIdle /\ RenderIdle

\* One turn of the loop of lines 200-231; the call to render_sgf is taken whole,
\* and ends the loop when it raises.
ProcessProblem ==
    /\ epc = "running"
    /\ problem_num < Len(content)
    /\ LET one == ExtractOne(content[problem_num + 1], problem_num + 1, normalize)
       IN IF one.raised # "None"
          THEN epc' = one.raised /\ UNCHANGED <<sgf_files, problem_num>>
          ELSE /\ sgf_files' = Append(sgf_files, one.file)
               /\ \E starts \in BOOLEAN :
                    IF render_output_dir = None
                    THEN /\ problem_num' = problem_num + 1
                         /\ epc' = "running"
                    ELSE IF ViewportRaises(one.game, "ROW_ONLY")
                    THEN epc' = "ValueError" /\ UNCHANGED problem_num
                    ELSE IF ~starts
                    THEN epc' = "FileNotFoundError" /\ UNCHANGED problem_num
                    ELSE /\ problem_num' = problem_num + 1
                         /\ epc' = "running"
    /\ UNCHANGED <<content, normalize, render_output_dir>>
    /\ UNCHANGED <<boardVars, parseVars, coordVars, mergeVars, renderVars>>

\* The zip is exhausted: extract_sgf returns.
FinishExtract ==
    /\ epc = "running"
    /\ problem_num = Len(content)
    /\ epc' = "done"
    /\ UNCHANGED <<content, normalize, render_output_dir, problem_num, sgf_files>>
    /\ UNCHANGED <<boardVars, parseVars, coordVars, mergeVars, renderVars>>

ExtractNext == ProcessProblem \/ FinishExtract

SpecExtract == ExtractInit /\ [][ExtractNext]_vars

\* The record C7 describes for a problem: for a "white to play" title the colours
\* swapped, the words of the title swapped and Black to play; otherwise the parsed
\* board, Black to play, with the title as comment.
NormalizedRecord(problem) ==
    LET name == strip(problem.title)
        src == tex2sgf(problem.board)
    IN IF StrIn("white to play", name)
       THEN [src EXCEPT !.setup_black = src.setup_white, !.setup_white = src.setup_black,
                        !.comment = Some(SwapWords(name)), !.player = "B"]
       ELSE [src EXCEPT !.comment = Some(name), !.player = "B"]

\* C7: with normalization requested no problem ends the processing with an
\* error of the normalization, and the k-th file written holds the record of the
\* k-th problem normalized: colours and title words swapped and PL[B] for a
\* "white to play" title, the unflipped Black-to-play board otherwise.
C7_NormalizedIsBlackToPlay ==
    normalize =>
        /\ epc # "AttributeError"
        /\ \A k \in 1..Len(sgf_files) :
            sgf_files[k].data = serialize(NormalizedRecord(content[k]))

(***************************************************************************)
(* merge_sgfs: sgf_dir is the directory as glob lists it, a list of files  *)
(* (stem and text) in any order; output_file is the text written.          *)
(***************************************************************************)

\* re.findall(r"\d+", s): the maximal runs of digits, left to right.
RECURSIVE FindAllDigits(_, _)
FindAllDigits(s, run) ==
    IF Len(s) = 0 THEN (IF run = "" THEN <<>> ELSE <<run>>)
    ELSE IF IsDigit(CharAt(s, 1)) THEN FindAllDigits(SubSeq(s, 2, Len(s)), run \o CharAt(s, 1))
    ELSE (IF run = "" THEN <<>> ELSE <<run>>) \o FindAllDigits(SubSeq(s, 2, Len(s)), "")

\* The stem compared as text, character by character.
Key_as_text(stem) == [k \in 1..Len(stem) |-> ord(CharAt(stem, k))]

\* The sort key of line 245: the integers embedded in the stem.
Key(stem) == [k \in 1..Len(FindAllDigits(stem, "")) |-> int(FindAllDigits(stem, "")[k])]

\* a < b for two Python lists of integers.
RECURSIVE ListLess(_, _)
ListLess(a, b) ==
    IF Len(b) = 0 THEN FALSE
    ELSE IF Len(a) = 0 THEN TRUE
    ELSE IF Head(a) # Head(b) THEN Head(a) < Head(b)
    ELSE ListLess(Tail(a), Tail(b))

\* sorted() is stable: a file goes after the files whose key is not greater.
RECURSIVE Insert(_, _)
Insert(file, done) ==
    IF Len(done) = 0 THEN <<file>>
    ELSE IF ListLess(Key(file.stem), Key(Head(done).stem)) THEN <<file>> \o done
    ELSE <<Head(done)>> \o Insert(file, Tail(done))

RECURSIVE SortedFrom(_, _)
SortedFrom(files, done) ==
    IF Len(files) = 0 THEN done
    ELSE SortedFrom(Tail(files), Insert(Head(files), done))

sorted(files) == SortedFrom(files, <<>>)

\* seq[1:-2]
DropFirstAndLastTwo(seq) == SubSeq(seq, 2, Len(seq) - 2)

RECURSIVE Games(_)
Games(files) ==
    IF Len(files) = 0 THEN ""
    ELSE "\n" \o "(;" \o join(DropFirstAndLastTwo(split(Head(files).text))) \o ")"
         \o Games(Tail(files))

merge_sgfs(files, comment) ==
    "(;FF[4]GM[1]SZ[19]\nC[" \o comment \o "]" \o Games(sorted(files)) \o "\n)"

MaxFiles == 3

Stems == {"problem 1", "problem 2", "problem 10", "problem 01", "7-2 (problem 3)", "x"}

\* A file as extract_sgf writes it.
SgfFile(stem) == [stem |-> stem, text |-> serialize(set_comment(SimpleSGF(DefaultSize), stem))]

Listings ==
    {f \in UNION {[1..n -> {SgfFile(stem) : stem \in Stems}] : n \in 0..MaxFiles} :
        \A a, b \in DOMAIN f : a # b => f[a] # f[b]}

MergeInit ==
    /\ sgf_dir \in Listings
    /\ merge_comment \in {"", "elementary"}
    /\ output_file = None
    /\ BoardIdle /\ ParseIdle /\ CoordIdle /\ ExtractIdle /\ RenderIdle

CallMergeSgfs ==
    /\ output_file = None
    /\ output_file' = Some(merge_sgfs(sgf_dir, merge_comment))
    /\ UNCHANGED <<sgf_dir, merge_comment>>
    /\ UNCHANGED <<boardVars, parseVars, coordVars, extractVars, renderVars>>

MergeNext == CallMergeSgfs

SpecMerge == MergeInit /\ [][MergeNext]_vars

\* The integers embedded in each stem, read off the names.
Embedded(stem) ==
    CASE stem = "problem 1" -> <<1>>
      [] stem = "problem 2" -> <<2>>
      [] stem = "problem 10" -> <<10>>
      [] stem = "problem 01" -> <<1>>
      [] stem = "7-2 (problem 3)" -> <<7, 2, 3>>
      [] stem = "x" -> <<>>

\* a <= b, position by position, a proper prefix being smaller.
NumericLeq(a, b) ==
    \/ \E k \in 1..Len(a) :
        /\ k <= Len(b)
        /\ a[k] < b[k]
        /\ \A j \in 1..(k - 1) : a[j] = b[j]
    \/ /\ Len(a) <= Len(b)
       /\ \A j \in 1..Len(a) : a[j] = b[j]

RECURSIVE Nodes(_, _)
Nodes(order, files) ==
    IF Len(order) = 0 THEN ""
    ELSE "\n(;C[" \o files[Head(order)].stem \o "]PL[B])" \o Nodes(Tail(order), files)

\* C9: the collection is one header of size 19 with the shared comment, then one
\* game node per input file, each file once, in the numeric order of the integers
\* embedded in the stems; "problem 2", "problem 10", "problem 1" merge as 1, 2, 10.
C9_MergeNaturalOrder ==
    output_file # None =>
        /\ \E order \in Orderings(DOMAIN sgf_dir) :
            /\ output_file[1] = "(;FF[4]GM[1]SZ[19]\nC[" \o merge_comment \o "]"
                                \o Nodes(order, sgf_dir) \o "\n)"
            /\ \A k \in 1..(Len(order) - 1) :
                NumericLeq(Embedded(sgf_dir[order[k]].stem), Embedded(sgf_dir[order[k + 1]].stem))
        /\ (sgf_dir = <<SgfFile("problem 2"), SgfFile("problem 10"), SgfFile("problem 1")>> =>
                output_file[1] = "(;FF[4]GM[1]SZ[19]\nC[" \o merge_comment \o "]"
                                 \o "\n(;C[problem 1]PL[B])\n(;C[problem 2]PL[B])"
                                 \o "\n(;C[problem 10]PL[B])\n)")

C9_Witness ==
    /\ sgf_dir = <<SgfFile("problem 2"), SgfFile("problem 10"), SgfFile("problem 1")>>
    /\ output_file # None
    /\ StrIn("(;C[problem 2]PL[B])\n(;C[problem 10]PL[B])", output_file[1])

====
